---------------------------- MODULE Spec2Model ----------------------------
(***************************************************************************)
(* Model of bezi_bridge.py: the BeziBridge automation process (run,        *)
(* new_thread, send_prompt, get_bezi_state, close_dialogs, find_windows)   *)
(* as one sequential program with a call stack, interleaved with the       *)
(* target application, which is a separate process.                        *)
(*                                                                         *)
(* The program counter pc names the source line about to be executed       *)
(* ("sp149" is line 149 of send_prompt).  A call pushes the label of the   *)
(* statement after the call on stack.  Every operation of the UI           *)
(* automation library may raise; the outcome is chosen by the environment. *)
(***************************************************************************)
EXTENDS Integers, Sequences, FiniteSets, TLC

(***************************************************************************)
(* Bounds of the model (not program constants).                            *)
(***************************************************************************)
MaxPolls == 3        \* wait-loop iterations (non-INACTIVE readings) per run
MaxLaunches == 1     \* failed connects that fall back to launching the app
MaxClicks == 1       \* dialog buttons that are present when looked for

(***************************************************************************)
(* Program constants.                                                      *)
(***************************************************************************)
None == "<None>"
DefaultBeziPath == "C:/Program Files/Bezi/Bezi.exe"
OverridePath == "D:/Tools/Bezi.exe"
StoredPath == "E:/Apps/Bezi.exe"
PromptFileName == "prompt.txt"

ActivityStates == {"BUSY", "INACTIVE", "READY", "UNKNOWN"}

\* the icons the state-indicator control shows
Icons == {"busy", "inactive", "ready"}

(***************************************************************************)
(* Images: np.array(img) of an RGB image has shape (h, w, 3).  An image is *)
(* its shape <<h, w>> and its pixels in row order, each <<r, g, b>>.       *)
(***************************************************************************)
MaxPixels == 4       \* h * w of the images compared

Black == <<0, 0, 0>>
Red == <<1, 0, 0>>
Palette == {Black, Red}

Shapes == {sh \in (1..MaxPixels) \X (1..MaxPixels) : sh[1] * sh[2] <= MaxPixels}

Image(sh, pixels) == [shape |-> sh, px |-> pixels]

Images ==
    UNION {{Image(sh, p) : p \in [1..(sh[1] * sh[2]) -> Palette]} : sh \in Shapes}

\* threshold of the calls in get_button_state (lines 234-238) and default
\* threshold of images_match (line 243), in percent
ClassifyThreshold == 90
DefaultThreshold == 95

\* positions of the array elements (pixel, channel) of an image
Elements(img) == (DOMAIN img.px) \X (1..3)

\* i1 == i2 of line 247: the elements that are equal
EqualElements(i1, i2) ==
    {e \in Elements(i1) : i1.px[e[1]][e[2]] = i2.px[e[1]][e[2]]}

\* images_match, lines 243-250, on two images: False when the shapes differ,
\* else np.mean(i1 == i2) > threshold, the mean being taken over all array
\* elements (threshold in percent)
ImagesMatch(img1, img2, threshold) ==
    IF img1.shape # img2.shape
    THEN FALSE
    ELSE Cardinality(EqualElements(img1, img2)) * 100
           > threshold * Cardinality(Elements(img1))

\* the icon files shipped with the bridge and what the control renders
IconShape == <<2, 2>>
InactiveImage == Image(IconShape, <<Black, Black, Black, Black>>)
BusyImage == Image(IconShape, <<Red, Red, Black, Black>>)
ReadyImage == Image(IconShape, <<Black, Black, Red, Red>>)
TransitionFrame == Image(IconShape, <<Red, Red, Red, Red>>)

IconImage(i) ==
    CASE i = "busy" -> BusyImage
      [] i = "inactive" -> InactiveImage
      [] i = "ready" -> ReadyImage

\* __init__, lines 79-84: the attributes are set in the order inactive,
\* active, busy; the first file that cannot be opened ends the loading
AllRefs == [inactive |-> <<InactiveImage>>, ready |-> <<ReadyImage>>,
            busy |-> <<BusyImage>>]
LoadedRefs ==
    {AllRefs,
     [AllRefs EXCEPT !.busy = <<>>],
     [AllRefs EXCEPT !.busy = <<>>, !.ready = <<>>],
     [AllRefs EXCEPT !.busy = <<>>, !.ready = <<>>, !.inactive = <<>>]}

\* texts shown by the app, character by character (for .strip())
AnswerText == <<" ", "o", "k", " ">>
EchoText == <<"o", " ", "k">>

VARIABLES
    pc,            \* label of the next statement of the automation process
    stack,         \* return labels of the active calls, innermost first
    exc,           \* exception propagating out of run(): "none" if none
    retval,        \* value returned by the last completed call
    args,          \* self.args  [prompt, bezi_path, init]
    configFile,    \* bezi_bridge.json on disk: <<>> if absent, else <<file>>
    config,        \* self.config: <<>> for None, else <<dict>>
    bezi_path,     \* self.bezi_path
    bezi_prompt,   \* self.bezi_prompt
    bezi_window,   \* self.bezi_window: None, "valid" or "stale"
    refs,          \* self.ready_icon_*: <<>> if the attribute is unset
    current_img,   \* current_img of get_button_state: <<>> before a capture
    keepAwake,     \* thread execution state holds SYSTEM/DISPLAY_REQUIRED
    runResult,     \* the tuple returned by run(): <<>> before it returns
    stdout,        \* what __main__ printed
    exitCode,      \* process exit status: <<>> while running
    appIcon,       \* target app: icon shown by the state-indicator control
    promptStatus,  \* target app: progress of the submitted prompt
    lastReading,   \* history: last value returned by get_bezi_state
    postReading,   \* history: last reading taken after the Enter keystroke
    ops,           \* history: number of UI operations performed, by kind
    opsAtCall,     \* history: ops when send_prompt was entered
    opsAtReading,  \* history: ops when get_bezi_state last returned
    launched       \* history: executable paths started by find_windows

vars == <<pc, stack, exc, retval, args, configFile, config, bezi_path,
          bezi_prompt, bezi_window, refs, current_img, keepAwake, runResult, stdout, exitCode,
          appIcon, promptStatus, lastReading, postReading, ops, opsAtCall,
          opsAtReading,
          launched>>

ctlVars == <<pc, stack, exc, retval>>
cfgVars == <<args, configFile, config, bezi_path, bezi_prompt>>
imgVars == <<refs, current_img>>
outVars == <<keepAwake, runResult, stdout, exitCode>>
appVars == <<appIcon, promptStatus>>
histVars == <<lastReading, postReading, ops, opsAtCall, opsAtReading,
              launched>>

OpKinds == {"find_windows", "launch", "lookup", "lookup_absent", "classify",
            "reap", "click", "set_focus", "new_thread_keys", "edit_lookup",
            "set_text", "enter", "sleep", "harvest", "polls"}

NoOps == [k \in OpKinds |-> 0]

\* ops after one more operation of kind k
Count(k) == [ops EXCEPT ![k] = @ + 1]

(***************************************************************************)
(* Values.                                                                 *)
(***************************************************************************)
PromptArgs == {None, "", "Hello", PromptFileName}
FileContents == {"", "Hello from file"}

\* Python truthiness of a str-or-None
Truthy(s) == s # None /\ s # ""

\* Python `a or b` on str-or-None values
Or(a, b) == IF Truthy(a) THEN a ELSE b

\* os.path.exists(p): the only file next to the script is the prompt file
PathExists(p) == p = PromptFileName

NoRet == [kind |-> "none"]
StateRet(s) == [kind |-> "state", state |-> s]
FalseRet == [kind |-> "False"]
ListRet(t) == [kind |-> "list", texts |-> t]
InitMsg == [kind |-> "str", str |-> "Initialization Complete"]

EmptyConfig == [initialized |-> FALSE, bezi_path |-> None]
StoredConfig == [initialized |-> TRUE, bezi_path |-> StoredPath]
ConfigFiles == {<<>>,
                <<[wellformed |-> TRUE, data |-> StoredConfig]>>,
                <<[wellformed |-> FALSE, data |-> EmptyConfig]>>}

(***************************************************************************)
(* Control flow: calls, returns and exceptions.                            *)
(***************************************************************************)
Call(target, ret) ==
    /\ pc' = target
    /\ stack' = <<ret>> \o stack

Return(v) ==
    /\ pc' = Head(stack)
    /\ stack' = Tail(stack)
    /\ retval' = v

\* statements of the try block of send_prompt, lines 155-160
TryLabels == {"sp155", "sp156", "sp157", "sp158", "sp159", "sp160"}

\* return labels of the calls made in the try block (find_windows, line 155)
TryReturnLabels == {"sp156"}

\* the statement executing, or the call it is waiting for, is in the try block
InTry == \/ pc \in TryLabels
         \/ stack # <<>> /\ Head(stack) \in TryReturnLabels

\* `except Exception` of line 161: SystemExit is not an Exception
Caught(e) == e = "Exception" /\ InTry

\* e is raised by the statement at pc: the handler of line 161 takes it, or
\* it unwinds every frame up to the finally block of run()
Raise(e) ==
    IF Caught(e)
    THEN /\ pc' = "sp161"
         /\ stack' = IF pc \in TryLabels THEN stack ELSE Tail(stack)
         /\ UNCHANGED <<exc, retval>>
    ELSE /\ pc' = "run267"
         /\ stack' = <<>>
         /\ exc' = e
         /\ UNCHANGED retval

(***************************************************************************)
(* Initial state: the bridge is constructed, __main__ has parsed the       *)
(* command line and is about to call run().                                *)
(***************************************************************************)
Init ==
    /\ pc = "run254"
    /\ stack = <<>>
    /\ exc = "none"
    /\ retval = NoRet
    /\ args \in [prompt : PromptArgs, bezi_path : {None, OverridePath},
                  init : BOOLEAN]
    /\ configFile \in ConfigFiles
    /\ config = <<>>
    /\ bezi_path = ""
    /\ bezi_prompt = ""
    /\ bezi_window = None
    /\ refs \in LoadedRefs
    /\ current_img = <<>>
    /\ keepAwake = FALSE
    /\ runResult = <<>>
    /\ stdout = <<>>
    /\ exitCode = <<>>
    /\ appIcon \in Icons
    /\ promptStatus = "none"
    /\ lastReading = None
    /\ postReading = None
    /\ ops = NoOps
    /\ opsAtCall = NoOps
    /\ opsAtReading = NoOps
    /\ launched = {}

(***************************************************************************)
(* run(), lines 252-267, and __main__, lines 269-280.                      *)
(***************************************************************************)
\* line 254: self.set_keep_awake(True), lines 89-95
RunKeepAwake ==
    /\ pc = "run254"
    /\ keepAwake' = TRUE
    /\ pc' = "run256"
    /\ UNCHANGED <<stack, exc, retval, cfgVars, imgVars, bezi_window, runResult,
                   stdout, exitCode, appVars, histVars>>

\* load_config, lines 211-215: the stored dict, or the default dict when the
\* file is absent or empty; json.load raises on a malformed file
LoadConfig(file) ==
    IF file = <<>> THEN EmptyConfig ELSE file[1].data

\* lines 256-257: self.config = self.load_config(); self.parse_arguments()
RunLoadConfig ==
    /\ pc = "run256"
    /\ IF configFile # <<>> /\ ~configFile[1].wellformed
       THEN /\ Raise("Exception")
            /\ UNCHANGED config
       ELSE /\ config' = <<LoadConfig(configFile)>>
            /\ pc' = "run258"
            /\ UNCHANGED <<stack, exc, retval>>
    /\ UNCHANGED <<args, imgVars, configFile, bezi_path, bezi_prompt, bezi_window,
                   outVars, appVars, histVars>>

\* line 258: self.find_windows()
RunFindWindows ==
    /\ pc = "run258"
    /\ Call("fw103", "run259")
    /\ UNCHANGED <<exc, retval, cfgVars, imgVars, bezi_window, outVars, appVars,
                   histVars>>

\* variant: the init branch sets the path but not the initialized flag
ValidateInitConfigNoFlag(c, a) ==
    [c EXCEPT !.bezi_path = Or(a.bezi_path, DefaultBeziPath)]

\* validate_arguments, lines 195-200, the init branch
ValidateInitConfig(c, a) ==
    [c EXCEPT !.initialized = TRUE,
              !.bezi_path = Or(a.bezi_path, DefaultBeziPath)]

\* validate_arguments, line 202
ValidateBeziPath(c, a) == Or(a.bezi_path, c.bezi_path)

\* line 259: validate_arguments (lines 195-208) always returns True
RunValidate ==
    /\ pc = "run259"
    /\ IF args.init
       THEN /\ config' = <<ValidateInitConfig(config[1], args)>>
            /\ bezi_path' = config'[1].bezi_path
            /\ UNCHANGED bezi_prompt
       ELSE /\ bezi_path' = ValidateBeziPath(config[1], args)
            /\ IF Truthy(args.prompt) /\ PathExists(args.prompt)
               THEN \E content \in FileContents : bezi_prompt' = content
               ELSE bezi_prompt' = args.prompt
            /\ UNCHANGED config
    /\ pc' = "run260"
    /\ UNCHANGED <<stack, exc, retval, args, imgVars, configFile, bezi_window,
                   outVars, appVars, histVars>>

\* line 260: if self.args.init
RunInitCheck ==
    /\ pc = "run260"
    /\ pc' = IF args.init THEN "run261" ELSE "run263"
    /\ UNCHANGED <<stack, exc, retval, cfgVars, imgVars, bezi_window, outVars,
                   appVars, histVars>>

\* line 261: save_config, lines 217-220 (open may fail, the file is then
\* left as it was)
RunSaveConfig ==
    /\ pc = "run261"
    /\ \E ok \in BOOLEAN :
         IF ok
         THEN /\ configFile' = <<[wellformed |-> TRUE, data |-> config[1]]>>
              /\ pc' = "run262"
              /\ UNCHANGED <<stack, exc, retval>>
         ELSE /\ Raise("Exception")
              /\ UNCHANGED configFile
    /\ UNCHANGED <<args, imgVars, config, bezi_path, bezi_prompt, bezi_window,
                   outVars, appVars, histVars>>

\* line 262: return (True, "Initialization Complete")
RunReturnInit ==
    /\ pc = "run262"
    /\ runResult' = <<[success |-> TRUE, result |-> InitMsg]>>
    /\ pc' = "run267"
    /\ UNCHANGED <<stack, exc, retval, cfgVars, imgVars, bezi_window, keepAwake,
                   stdout, exitCode, appVars, histVars>>

\* line 263: self.new_thread()
RunNewThread ==
    /\ pc = "run263"
    /\ Call("nt137", "run264")
    /\ UNCHANGED <<exc, retval, cfgVars, imgVars, bezi_window, outVars, appVars,
                   histVars>>

\* line 264: result = self.send_prompt(self.bezi_prompt)
RunSendPrompt ==
    /\ pc = "run264"
    /\ Call("sp145", "run265")
    /\ opsAtCall' = ops
    /\ UNCHANGED <<exc, retval, cfgVars, imgVars, bezi_window, outVars, appVars,
                   lastReading, postReading, ops, opsAtReading, launched>>

\* line 265: return (True, result)
RunReturn ==
    /\ pc = "run265"
    /\ runResult' = <<[success |-> TRUE, result |-> retval]>>
    /\ pc' = "run267"
    /\ UNCHANGED <<stack, exc, retval, cfgVars, imgVars, bezi_window, keepAwake,
                   stdout, exitCode, appVars, histVars>>

\* variant: the flag is released after the try block, not in a finally
RunFinallyOnSuccess ==
    /\ pc = "run267"
    /\ keepAwake' = IF exc = "none" THEN FALSE ELSE keepAwake
    /\ pc' = IF exc = "none" THEN "main277" ELSE "main280"
    /\ UNCHANGED <<stack, exc, retval, cfgVars, imgVars, bezi_window, runResult,
                   stdout, exitCode, appVars, histVars>>

\* lines 266-267: finally: self.set_keep_awake(False), then the return or
\* the exception continues into __main__
RunFinally ==
    /\ pc = "run267"
    /\ keepAwake' = FALSE
    /\ pc' = IF exc = "none" THEN "main277" ELSE "main280"
    /\ UNCHANGED <<stack, exc, retval, cfgVars, imgVars, bezi_window, runResult,
                   stdout, exitCode, appVars, histVars>>

\* lines 276-278: success, result = bridge.run(); if success: print(result)
MainPrint ==
    /\ pc = "main277"
    /\ stdout' = IF runResult[1].success
                 THEN Append(stdout, runResult[1].result)
                 ELSE stdout
    /\ pc' = "main280"
    /\ UNCHANGED <<stack, exc, retval, cfgVars, imgVars, bezi_window, keepAwake,
                   runResult, exitCode, appVars, histVars>>

\* exit status of the interpreter: 0 after a normal end, 1 after an uncaught
\* exception and after exit(1)
ExitStatus(e) == IF e = "none" THEN 0 ELSE 1

\* lines 279-280: finally: perf_logger.save_timings(); the process ends
MainFinally ==
    /\ pc = "main280"
    /\ exitCode' = <<ExitStatus(exc)>>
    /\ pc' = "exited"
    /\ UNCHANGED <<stack, exc, retval, cfgVars, imgVars, bezi_window, keepAwake,
                   runResult, stdout, appVars, histVars>>

(***************************************************************************)
(* find_windows, lines 100-112.                                            *)
(***************************************************************************)
\* lines 109-111: the executable started when connecting fails
LaunchPath(path) == IF Truthy(path) THEN path ELSE DefaultBeziPath

\* connect to the running app, or else start it; Application.start raises
\* when the executable cannot be started
FindWindows ==
    /\ pc = "fw103"
    /\ \E connected \in BOOLEAN :
         IF connected
         THEN /\ bezi_window' = "valid"
              /\ ops' = Count("find_windows")
              /\ Return(NoRet)
              /\ UNCHANGED <<exc, bezi_path, launched>>
         ELSE /\ ops["launch"] < MaxLaunches
              /\ bezi_path' = LaunchPath(bezi_path)
              /\ ops' = [ops EXCEPT !["find_windows"] = @ + 1,
                                    !["launch"] = @ + 1]
              /\ \E started \in BOOLEAN :
                   IF started
                   THEN /\ bezi_window' = "valid"
                        /\ launched' = launched \cup {bezi_path'}
                        /\ Return(NoRet)
                        /\ UNCHANGED exc
                   ELSE /\ Raise("Exception")
                        /\ UNCHANGED <<bezi_window, launched>>
    /\ UNCHANGED <<args, imgVars, configFile, config, bezi_prompt, outVars, appVars,
                   lastReading, postReading, opsAtCall, opsAtReading>>

(***************************************************************************)
(* get_bezi_state, lines 115-123, with find_submit_button, lines 125-132,  *)
(* and get_button_state, lines 231-240.                                    *)
(***************************************************************************)
\* line 117: self.find_windows()
GbsFindWindows ==
    /\ pc = "gbs117"
    /\ Call("fw103", "gbs118")
    /\ UNCHANGED <<exc, retval, cfgVars, imgVars, bezi_window, outVars, appVars,
                   histVars>>

\* variant: a missing control is logged and the classification goes on
GbsFindButtonNoExit ==
    /\ pc = "gbs118"
    /\ \E outcome \in {"found", "absent", "raise"} :
         CASE outcome = "found" ->
                /\ ops' = Count("lookup")
                /\ pc' = "gbs122"
                /\ UNCHANGED <<stack, exc, retval>>
           [] outcome = "absent" ->
                /\ ops' = [ops EXCEPT !["lookup"] = @ + 1,
                                      !["lookup_absent"] = @ + 1]
                /\ pc' = "gbs122"
                /\ UNCHANGED <<stack, exc, retval>>
           [] outcome = "raise" ->
                /\ ops' = Count("lookup")
                /\ Raise("Exception")
    /\ UNCHANGED <<cfgVars, imgVars, bezi_window, outVars, appVars, lastReading,
                   postReading, opsAtCall, opsAtReading, launched>>

\* lines 118-121: button = self.find_submit_button(); the 56x56 control is
\* found, or it is absent (print, exit(1)), or enumerating the descendants
\* raises
GbsFindButton ==
    /\ pc = "gbs118"
    /\ \E outcome \in {"found", "absent", "raise"} :
         CASE outcome = "found" ->
                /\ ops' = Count("lookup")
                /\ pc' = "gbs122"
                /\ UNCHANGED <<stack, exc, retval>>
           [] outcome = "absent" ->
                /\ ops' = [ops EXCEPT !["lookup"] = @ + 1,
                                      !["lookup_absent"] = @ + 1]
                /\ Raise("SystemExit")
           [] outcome = "raise" ->
                /\ ops' = Count("lookup")
                /\ Raise("Exception")
    /\ UNCHANGED <<cfgVars, imgVars, bezi_window, outVars, appVars, lastReading,
                   postReading, opsAtCall, opsAtReading, launched>>

\* the references a capture matches at threshold 0.90
NoMatch == [busy |-> FALSE, inactive |-> FALSE, ready |-> FALSE]

\* a capture of the control showing icon i: the icon itself, or a frame of
\* its animation
CapturesOf(i) == {IconImage(i), TransitionFrame}

\* images_match(self.ready_icon_<name>, img, 0.90) for each reference, lines
\* 234-238
Matches(r, img) ==
    [name \in {"busy", "inactive", "ready"} |->
        r[name] # <<>> /\ ImagesMatch(r[name][1], img, ClassifyThreshold)]

\* get_button_state reads an attribute that __init__ never set: the
\* references are read in the order busy, inactive, active, each only when
\* the ones before it did not match
ReadsUnsetRef(r, img) ==
    \/ r.busy = <<>>
    \/ ~Matches(r, img).busy /\ r.inactive = <<>>
    \/ ~Matches(r, img).busy /\ ~Matches(r, img).inactive /\ r.ready = <<>>

\* variant: the INACTIVE reference is tried before the BUSY one
GetButtonStateInactiveFirst(m) ==
    IF m.inactive THEN "INACTIVE"
    ELSE IF m.busy THEN "BUSY"
    ELSE IF m.ready THEN "READY"
    ELSE "UNKNOWN"

\* get_button_state, lines 234-240: first match in the order BUSY, INACTIVE,
\* READY
GetButtonState(m) ==
    IF m.busy THEN "BUSY"
    ELSE IF m.inactive THEN "INACTIVE"
    ELSE IF m.ready THEN "READY"
    ELSE "UNKNOWN"

\* lines 122-123: state = self.get_button_state(button); return state.
\* capture_as_image may raise; reading an unset reference attribute raises
\* AttributeError
GbsButtonState ==
    /\ pc = "gbs122"
    /\ ops' = Count("classify")
    /\ \E captured \in BOOLEAN :
         IF captured
         THEN \E img \in CapturesOf(appIcon) :
                /\ current_img' = <<img>>
                /\ IF ReadsUnsetRef(refs, img)
                   THEN /\ Raise("Exception")
                        /\ UNCHANGED <<lastReading, postReading,
                                       opsAtReading>>
                   ELSE /\ lastReading' = GetButtonState(Matches(refs, img))
                        /\ opsAtReading' = ops'
                        /\ postReading' =
                             IF ops["enter"] > 0
                             THEN GetButtonState(Matches(refs, img))
                             ELSE postReading
                        /\ Return(StateRet(GetButtonState(Matches(refs, img))))
                        /\ UNCHANGED exc
         ELSE /\ Raise("Exception")
              /\ UNCHANGED <<lastReading, postReading, current_img,
                             opsAtReading>>
    /\ UNCHANGED <<cfgVars, refs, bezi_window, outVars, appVars, opsAtCall,
                   launched>>

(***************************************************************************)
(* close_dialogs, lines 176-181, with click_button_by_name, lines 183-192. *)
(***************************************************************************)
\* variant: without the bare except a missing button raises
ClickButtonByNameRaises(here, next, first) ==
    /\ pc = here
    /\ \E present \in BOOLEAN :
         IF present
         THEN /\ ops["click"] < MaxClicks
              /\ ops' = [ops EXCEPT !["click"] = @ + 1,
                                    !["reap"] = IF first THEN @ + 1 ELSE @]
              /\ bezi_window' = "stale"
              /\ pc' = next
              /\ UNCHANGED <<stack, exc, retval>>
         ELSE /\ ops' = [ops EXCEPT !["reap"] = IF first THEN @ + 1 ELSE @]
              /\ Raise("Exception")
              /\ UNCHANGED bezi_window
    /\ UNCHANGED <<cfgVars, imgVars, outVars, appVars, lastReading,
                   postReading, opsAtCall, opsAtReading, launched>>

\* click_button_by_name: clicks the button when it is there; every failure
\* is swallowed by the bare except.  first marks the entry of close_dialogs.
ClickButtonByName(here, next, first) ==
    /\ pc = here
    /\ pc' = next
    /\ \E present \in BOOLEAN :
         IF present
         THEN /\ ops["click"] < MaxClicks
              /\ ops' = [ops EXCEPT !["click"] = @ + 1,
                                    !["reap"] = IF first THEN @ + 1 ELSE @]
              /\ bezi_window' = "stale"
         ELSE /\ ops' = [ops EXCEPT !["reap"] = IF first THEN @ + 1 ELSE @]
              /\ UNCHANGED bezi_window
    /\ UNCHANGED <<stack, exc, retval, cfgVars, imgVars, outVars, appVars,
                   lastReading, postReading, opsAtCall, opsAtReading, launched>>

\* line 178: self.click_button_by_name("Continue")
CdClickContinue == ClickButtonByName("cd178", "cd179", TRUE)

\* line 179: self.find_windows()
CdFindWindows1 ==
    /\ pc = "cd179"
    /\ Call("fw103", "cd180")
    /\ UNCHANGED <<exc, retval, cfgVars, imgVars, bezi_window, outVars, appVars,
                   histVars>>

\* line 180: self.click_button_by_name("Keep All")
CdClickKeepAll == ClickButtonByName("cd180", "cd181", FALSE)

\* line 181: self.find_windows()
CdFindWindows2 ==
    /\ pc = "cd181"
    /\ Call("fw103", "cd182")
    /\ UNCHANGED <<exc, retval, cfgVars, imgVars, bezi_window, outVars, appVars,
                   histVars>>

\* end of close_dialogs
CdReturn ==
    /\ pc = "cd182"
    /\ Return(NoRet)
    /\ UNCHANGED <<exc, cfgVars, imgVars, bezi_window, outVars, appVars, histVars>>

(***************************************************************************)
(* new_thread, lines 134-141.                                              *)
(***************************************************************************)
\* a UI operation at label here that either succeeds and goes on to next, or
\* raises; it is counted as an operation of kind k
UiStep(here, next, k, ok) ==
    /\ pc = here
    /\ ops' = Count(k)
    /\ IF ok
       THEN /\ pc' = next
            /\ UNCHANGED <<stack, exc, retval>>
       ELSE Raise("Exception")

\* time.sleep at label here: the handle obtained before it may go stale
Sleep(here, next) ==
    /\ pc = here
    /\ pc' = next
    /\ ops' = Count("sleep")
    /\ bezi_window' = "stale"
    /\ UNCHANGED <<stack, exc, retval, cfgVars, imgVars, outVars, appVars,
                   lastReading, postReading, opsAtCall, opsAtReading, launched>>

\* line 137: self.bezi_window.set_focus()
NtSetFocus ==
    /\ \E ok \in BOOLEAN : UiStep("nt137", "nt138", "set_focus", ok)
    /\ UNCHANGED <<cfgVars, imgVars, bezi_window, outVars, appVars, lastReading,
                   postReading, opsAtCall, opsAtReading, launched>>

\* line 138: self.bezi_window.type_keys("^T")
NtTypeKeys ==
    /\ \E ok \in BOOLEAN : UiStep("nt138", "nt139", "new_thread_keys", ok)
    /\ bezi_window' = "stale"
    /\ UNCHANGED <<cfgVars, imgVars, outVars, appVars, lastReading, postReading,
                   opsAtCall, opsAtReading, launched>>

\* line 139: time.sleep(1)
NtSleep == Sleep("nt139", "nt140")

\* line 140: self.find_windows()
NtFindWindows ==
    /\ pc = "nt140"
    /\ Call("fw103", "nt141")
    /\ UNCHANGED <<exc, retval, cfgVars, imgVars, bezi_window, outVars, appVars,
                   histVars>>

\* line 141: self.close_dialogs()
NtCloseDialogs ==
    /\ pc = "nt141"
    /\ Call("cd178", "nt142")
    /\ UNCHANGED <<exc, retval, cfgVars, imgVars, bezi_window, outVars, appVars,
                   histVars>>

\* end of new_thread
NtReturn ==
    /\ pc = "nt142"
    /\ Return(NoRet)
    /\ UNCHANGED <<exc, cfgVars, imgVars, bezi_window, outVars, appVars, histVars>>

(***************************************************************************)
(* The target application (a separate process).                            *)
(***************************************************************************)
\* str.strip() on a text given character by character
RECURSIVE LStrip(_)
LStrip(t) == IF t # <<>> /\ Head(t) = " " THEN LStrip(Tail(t)) ELSE t

RECURSIVE RStrip(_)
RStrip(t) ==
    IF t # <<>> /\ t[Len(t)] = " " THEN RStrip(SubSeq(t, 1, Len(t) - 1)) ELSE t

Strip(t) == LStrip(RStrip(t))

\* the Text elements the window shows: the echoed prompt once it is
\* submitted, the answer once processing is finished
VisibleTexts(status) ==
    CASE status \in {"none", "typed"} -> <<>>
      [] status \in {"queued", "processing"} -> <<EchoText>>
      [] status = "finished" -> <<EchoText, AnswerText>>

\* the app starts to process the submitted prompt: the indicator turns busy
AppStart ==
    /\ promptStatus = "queued"
    /\ promptStatus' = "processing"
    /\ appIcon' = "busy"
    /\ UNCHANGED <<ctlVars, cfgVars, imgVars, bezi_window, outVars, histVars>>

\* the app ends what it was busy with
AppFinish ==
    /\ appIcon = "busy"
    /\ appIcon' \in {"ready", "inactive"}
    /\ promptStatus' = IF promptStatus = "processing"
                       THEN "finished"
                       ELSE promptStatus
    /\ UNCHANGED <<ctlVars, cfgVars, imgVars, bezi_window, outVars, histVars>>

\* the freshly-completed indicator goes back to idle
AppSettle ==
    /\ appIcon = "ready"
    /\ appIcon' = "inactive"
    /\ UNCHANGED <<ctlVars, cfgVars, imgVars, bezi_window, outVars, promptStatus,
                   histVars>>

(***************************************************************************)
(* send_prompt, lines 143-174.                                             *)
(***************************************************************************)
\* variant: the window is acquired before the prompt is validated
SpValidateLate ==
    /\ pc = "sp145"
    /\ ops' = Count("find_windows")
    /\ IF ~Truthy(bezi_prompt)
       THEN Raise("ValueError")
       ELSE /\ pc' = "sp149"
            /\ UNCHANGED <<stack, exc, retval>>
    /\ UNCHANGED <<cfgVars, imgVars, bezi_window, outVars, appVars, lastReading,
                   postReading, opsAtCall, opsAtReading, launched>>

\* line 145: if not message: raise ValueError("Empty prompt")
SpValidate ==
    /\ pc = "sp145"
    /\ IF ~Truthy(bezi_prompt)
       THEN Raise("ValueError")
       ELSE /\ pc' = "sp149"
            /\ UNCHANGED <<stack, exc, retval>>
    /\ UNCHANGED <<cfgVars, imgVars, bezi_window, outVars, appVars, histVars>>

\* the call self.get_bezi_state() in a loop condition
PollCall(here, test) ==
    /\ pc = here
    /\ Call("gbs117", test)
    /\ UNCHANGED <<exc, retval, cfgVars, imgVars, bezi_window, outVars, appVars,
                   histVars>>

\* variant: the loop waits only while the app is busy
IdleReachedNotBusy(state) == state # "BUSY"

\* lines 149 and 167: the loop ends when "INACTIVE" != state is false
IdleReached(state) == state = "INACTIVE"

\* the loop condition on the state just returned
PollTest(here, body, after) ==
    /\ pc = here
    /\ pc' = IF IdleReached(retval.state) THEN after ELSE body
    /\ UNCHANGED <<stack, exc, retval, cfgVars, imgVars, bezi_window, outVars,
                   appVars, histVars>>

\* self.close_dialogs() as the first statement of a loop body
LoopReap(here, next) ==
    /\ pc = here
    /\ ops["polls"] < MaxPolls
    /\ ops' = Count("polls")
    /\ Call("cd178", next)
    /\ UNCHANGED <<exc, retval, cfgVars, imgVars, bezi_window, outVars, appVars,
                   lastReading, postReading, opsAtCall, opsAtReading, launched>>

\* self.close_dialogs() after a loop
FinalReap(here, next) ==
    /\ pc = here
    /\ Call("cd178", next)
    /\ UNCHANGED <<exc, retval, cfgVars, imgVars, bezi_window, outVars, appVars,
                   histVars>>

\* self.find_windows() in send_prompt
SpFind(here, next) ==
    /\ pc = here
    /\ Call("fw103", next)
    /\ UNCHANGED <<exc, retval, cfgVars, imgVars, bezi_window, outVars, appVars,
                   histVars>>

\* line 149: while "INACTIVE" != self.get_bezi_state()
SpPrePoll == PollCall("sp149", "sp149t")
SpPreTest == PollTest("sp149t", "sp150", "sp152")
\* line 150: self.close_dialogs()
SpPreReap == LoopReap("sp150", "sp151")
\* variant: the first wait gives up after one sleep and goes on to submit
SpPreSleepGivesUp == Sleep("sp151", "sp152")
\* line 151: time.sleep(1)
SpPreSleep == Sleep("sp151", "sp149")
\* variant: the first wait goes on to the submission without the final reap
SpPreFinalReapSkipped ==
    /\ pc = "sp152"
    /\ pc' = "sp155"
    /\ UNCHANGED <<stack, exc, retval, cfgVars, imgVars, bezi_window, outVars,
                   appVars, histVars>>
\* line 152: self.close_dialogs()
SpPreFinalReap == FinalReap("sp152", "sp155")

\* line 155: self.find_windows()
SpFindWindows1 == SpFind("sp155", "sp156")

\* line 156: prompt_box = self.bezi_window.descendants(control_type="Edit")[-1]
\* raises when the enumeration fails or finds no edit control
SpFindPromptBox ==
    /\ \E ok \in BOOLEAN : UiStep("sp156", "sp157", "edit_lookup", ok)
    /\ UNCHANGED <<cfgVars, imgVars, bezi_window, outVars, appVars, lastReading,
                   postReading, opsAtCall, opsAtReading, launched>>

\* line 157: prompt_box.set_text(message)
SpSetText ==
    /\ \E ok \in BOOLEAN :
         /\ UiStep("sp157", "sp158", "set_text", ok)
         /\ promptStatus' = IF ok THEN "typed" ELSE promptStatus
    /\ bezi_window' = "stale"
    /\ UNCHANGED <<cfgVars, imgVars, outVars, appIcon, lastReading, postReading,
                   opsAtCall, opsAtReading, launched>>

\* line 158: time.sleep(1)
SpSleep1 == Sleep("sp158", "sp159")

\* line 159: self.bezi_window.type_keys("{ENTER}")
SpEnter ==
    /\ \E ok \in BOOLEAN :
         /\ UiStep("sp159", "sp160", "enter", ok)
         /\ promptStatus' = IF ok THEN "queued" ELSE promptStatus
    /\ bezi_window' = "stale"
    /\ postReading' = None
    /\ UNCHANGED <<cfgVars, imgVars, outVars, appIcon, lastReading, opsAtCall, opsAtReading,
                   launched>>

\* line 160: time.sleep(2)
SpSleep2 == Sleep("sp160", "sp164")

\* variant: the handler logs the failure and goes on to the second wait
SpExceptContinue ==
    /\ pc = "sp161"
    /\ pc' = "sp164"
    /\ UNCHANGED <<stack, exc, retval, cfgVars, imgVars, bezi_window, outVars,
                   appVars, histVars>>

\* variant: the handler retries the submission
SpExceptRetry ==
    /\ pc = "sp161"
    /\ pc' = "sp155"
    /\ UNCHANGED <<stack, exc, retval, cfgVars, imgVars, bezi_window, outVars,
                   appVars, histVars>>

\* lines 161-163: except Exception: print(...); return False
SpExcept ==
    /\ pc = "sp161"
    /\ Return(FalseRet)
    /\ UNCHANGED <<exc, cfgVars, imgVars, bezi_window, outVars, appVars, histVars>>

\* line 164: self.find_windows()
SpFindWindows2 == SpFind("sp164", "sp167")

\* line 167: while "INACTIVE" != self.get_bezi_state()
SpPostPoll == PollCall("sp167", "sp167t")
\* variant: the second wait polls once and goes on whatever it read
SpPostTestOnce == PollTest("sp167t", "sp170", "sp170")
SpPostTest == PollTest("sp167t", "sp168", "sp170")
\* line 168: self.close_dialogs()
SpPostReap == LoopReap("sp168", "sp169")
\* line 169: time.sleep(1)
SpPostSleep == Sleep("sp169", "sp167")
\* line 170: self.close_dialogs()
SpPostFinalReap == FinalReap("sp170", "sp172")

\* line 172: self.find_windows()
SpFindWindows3 == SpFind("sp172", "sp173")

\* line 174: [e.window_text().strip() for e in elements]
Harvest(texts) == [i \in DOMAIN texts |-> Strip(texts[i])]

\* lines 173-174: enumerate the Text descendants and return their texts;
\* the enumeration or window_text may raise
SpHarvest ==
    /\ pc = "sp173"
    /\ ops' = Count("harvest")
    /\ \E ok \in BOOLEAN :
         IF ok
         THEN /\ Return(ListRet(Harvest(VisibleTexts(promptStatus))))
              /\ UNCHANGED exc
         ELSE Raise("Exception")
    /\ UNCHANGED <<cfgVars, imgVars, bezi_window, outVars, appVars, lastReading,
                   postReading, opsAtCall, opsAtReading, launched>>

(***************************************************************************)
(* The system.                                                             *)
(***************************************************************************)
Next ==
    \/ RunKeepAwake \/ RunLoadConfig \/ RunFindWindows \/ RunValidate
    \/ RunInitCheck \/ RunSaveConfig \/ RunReturnInit \/ RunNewThread
    \/ RunSendPrompt \/ RunReturn \/ RunFinally \/ MainPrint \/ MainFinally
    \/ FindWindows
    \/ GbsFindWindows \/ GbsFindButton \/ GbsButtonState
    \/ CdClickContinue \/ CdFindWindows1 \/ CdClickKeepAll
    \/ CdFindWindows2 \/ CdReturn
    \/ NtSetFocus \/ NtTypeKeys \/ NtSleep \/ NtFindWindows
    \/ NtCloseDialogs \/ NtReturn
    \/ SpValidate \/ SpPrePoll \/ SpPreTest \/ SpPreReap \/ SpPreSleep
    \/ SpPreFinalReap \/ SpFindWindows1 \/ SpFindPromptBox \/ SpSetText
    \/ SpSleep1 \/ SpEnter \/ SpSleep2 \/ SpExcept \/ SpFindWindows2
    \/ SpPostPoll \/ SpPostTest \/ SpPostReap \/ SpPostSleep
    \/ SpPostFinalReap \/ SpFindWindows3 \/ SpHarvest
    \/ AppStart \/ AppFinish \/ AppSettle

Spec == Init /\ [][Next]_vars

TypeOK ==
    /\ exc \in {"none", "ValueError", "Exception", "SystemExit"}
    /\ bezi_window \in {None, "valid", "stale"}
    /\ keepAwake \in BOOLEAN
    /\ appIcon \in Icons
    /\ promptStatus \in {"none", "typed", "queued", "processing", "finished"}
    /\ lastReading \in ActivityStates \cup {None}
    /\ postReading \in ActivityStates \cup {None}
    /\ \A k \in OpKinds : ops[k] \in Nat
    /\ Len(stack) <= 4

(***************************************************************************)
(* Properties.                                                             *)
(***************************************************************************)
\* the step calls set_text (line 157) or sends Enter (line 159)
Injects == \/ ops'["set_text"] > ops["set_text"]
           \/ ops'["enter"] > ops["enter"]

\* C1: every input injection (set_text on the prompt box, the Enter
\* keystroke) is made while the most recent get_bezi_state reading is
\* INACTIVE; none follows a BUSY, READY or UNKNOWN reading.
C1_InjectOnlyWhenInactive == [][Injects => lastReading = "INACTIVE"]_vars

\* the prompt was typed and submitted after a wait that saw a busy app
C1_Witness ==
    /\ ops["set_text"] = 1
    /\ ops["enter"] = 1
    /\ ops["polls"] >= 1
    /\ postReading = None

\* texts the harvest can return once the prompt is submitted
SubmittedHarvests ==
    {Harvest(VisibleTexts(st)) : st \in {"queued", "processing", "finished"}}

\* C2: one send_prompt sets the text and sends Enter at most once whatever
\* the readings are; when it returns without a failure it has submitted
\* exactly once and returns the harvested (stripped) text sequence.
C2_SubmitsOnce ==
    /\ ops["set_text"] <= 1
    /\ ops["enter"] <= 1
    /\ pc = "run265" =>
         \/ retval.kind = "False"
         \/ /\ retval.kind = "list"
            /\ ops["set_text"] = 1
            /\ ops["enter"] = 1
            /\ ops["harvest"] = 1
            /\ retval.texts \in SubmittedHarvests

\* scenario A: three non-INACTIVE readings in all, one submission, the
\* harvest returned with the stripped answer
C2_Witness ==
    /\ pc = "run265"
    /\ retval.kind = "list"
    /\ ops["polls"] = 3
    /\ ops["enter"] = 1
    /\ retval.texts = <<EchoText, <<"o", "k">> >>

\* C3: the harvest (enumerating the Text descendants) happens only after
\* the Enter keystroke was sent and a classification taken after that
\* keystroke returned INACTIVE, that reading being the latest one.
C3_HarvestAfterPostIdle ==
    ops["harvest"] > 0 =>
        /\ ops["enter"] = 1
        /\ promptStatus \notin {"none", "typed"}
        /\ postReading = "INACTIVE"
        /\ lastReading = "INACTIVE"

\* harvested after the second wait saw the app busy and then idle
C3_Witness ==
    /\ ops["harvest"] = 1
    /\ promptStatus = "finished"
    /\ ops["polls"] >= 1
    /\ retval.kind = "list"

\* C4 (as claimed): send_prompt harvests only after the app has finished
\* processing the submitted prompt.
C4_HarvestAfterProcessing == ops["harvest"] > 0 => promptStatus = "finished"

\* C5: send_prompt with an empty prompt raises the validation error before
\* any window operation: no find_windows, classification, dialog reap or
\* injection (no operation at all) is performed by that call.
C5_EmptyPromptNoWindowOp == exc = "ValueError" => ops = opsAtCall

\* the empty-prompt failure ended the process
C5_Witness ==
    /\ exc = "ValueError"
    /\ pc = "exited"
    /\ bezi_prompt = ""
    /\ opsAtCall["find_windows"] > 0

\* C6 (as claimed): in a run with an empty or missing prompt no UI
\* interaction (window acquisition, launch, focus, keystroke, click) happens
\* before the validation failure is raised.
C6_NoUiBeforeValidation == exc = "ValueError" => ops = NoOps

\* statements after run() is left
AfterRun == {"main277", "main280", "exited"}

\* C7: the keep-awake flag is set before any other step of run(), is held
\* during every step of run(), and is released on every way out of run():
\* no terminated run leaves it set.
C7_KeepAwakeReleased ==
    /\ pc = "run254" => ops = NoOps /\ config = <<>> /\ ~keepAwake
    /\ pc \notin AfterRun \cup {"run254"} => keepAwake
    /\ pc \in AfterRun => ~keepAwake

\* the run ended by the exit(1) of a discovery failure, flag released
C7_Witness ==
    /\ pc = "exited"
    /\ exc = "SystemExit"
    /\ ~keepAwake

\* C8: once the lookup of the 56x56 state-indicator control finds nothing,
\* no further operation (classification, reap, sleep, injection, harvest) is
\* performed, in the first wait as in the second, and the process exits
\* with a non-zero status.
C8_DiscoveryFailureFatal ==
    [][ops["lookup_absent"] > 0 =>
         /\ ops' = ops
         /\ exc = "SystemExit"
         /\ pc' = "exited" => exitCode' # <<>> /\ exitCode'[1] # 0]_vars

\* the control went missing in the wait after the submission
C8_Witness ==
    /\ ops["lookup_absent"] = 1
    /\ ops["enter"] = 1
    /\ pc = "exited"
    /\ exitCode = <<1>>

\* statements of send_prompt from the submitting step on (lines 155-174),
\* and the return labels of the calls they make
SubmitOrLater == {"sp155", "sp156", "sp157", "sp158", "sp159", "sp160",
                  "sp164", "sp167", "sp167t", "sp168", "sp169", "sp170",
                  "sp172", "sp173"}
SubmitOrLaterReturns == {"sp156", "sp167", "sp167t", "sp169", "sp172",
                         "sp173"}

AtOrAfterSubmit ==
    \/ pc \in SubmitOrLater
    \/ \E i \in DOMAIN stack : stack[i] \in SubmitOrLaterReturns

\* C9 (as claimed): no exception raised by a UI operation in the submitting
\* step, the second wait or the harvest propagates out of send_prompt.
C9_NoExceptionEscapes ==
    [][exc = "none" /\ exc' = "Exception" => ~AtOrAfterSubmit]_vars

\* the statement that follows a statement of the submitting step
SubmitNext(l) ==
    CASE l = "sp156" -> "sp157"
      [] l = "sp157" -> "sp158"
      [] l = "sp159" -> "sp160"

\* C10: when the edit control is not found, or set_text or Enter fails,
\* send_prompt goes to its handler and returns False at once: no retry, no
\* further injection, no second wait, no harvest, no operation at all.
C10_SubmitFailureNoRetry ==
    [][/\ pc \in {"sp156", "sp157", "sp159"} /\ pc' \notin {pc, SubmitNext(pc)}
          => pc' = "sp161"
       /\ pc = "sp161" /\ pc' # pc
          => pc' = "run265" /\ retval' = FalseRet
       /\ pc = "sp161" \/ retval.kind = "False"
          => ops' = ops /\ ops["harvest"] = 0 /\ postReading = None]_vars

\* the edit control was not found: failure returned, nothing injected
C10_Witness ==
    /\ retval.kind = "False"
    /\ ops["edit_lookup"] = 1
    /\ ops["set_text"] = 0
    /\ pc = "exited"

\* C11 (as claimed): a run whose send_prompt ended in failure is not
\* reported as a success: run() returns a success status, and __main__
\* prints and exits with status 0, only for a harvested sequence or the
\* completed initialization.
C11_FailureReported ==
    /\ runResult # <<>> /\ runResult[1].success
         => runResult[1].result.kind \in {"list", "str"}
    /\ pc = "exited" /\ retval.kind = "False"
         => exitCode[1] # 0 /\ stdout = <<>>

(***************************************************************************)
(* The classifier on its own: get_button_state and images_match applied to *)
(* arbitrary reference images and captures.                                *)
(***************************************************************************)
\* reference images of the icon's shape
RefImages == {Image(IconShape, <<a, b, Black, Black>>) : a, b \in Palette}

\* thresholds passed to images_match, in percent
Thresholds == {50, ClassifyThreshold, DefaultThreshold}

InitClassifier ==
    /\ pc = "probe"
    /\ stack = <<>>
    /\ exc = "none"
    /\ retval = NoRet
    /\ args = [prompt |-> None, bezi_path |-> None, init |-> FALSE]
    /\ configFile = <<>>
    /\ config = <<>>
    /\ bezi_path = ""
    /\ bezi_prompt = ""
    /\ bezi_window = None
    /\ refs \in [{"busy", "inactive", "ready"} -> {<<r>> : r \in RefImages}]
    /\ current_img \in {<<i>> : i \in Images}
    /\ keepAwake = FALSE
    /\ runResult = <<>>
    /\ stdout = <<>>
    /\ exitCode = <<>>
    /\ appIcon = "inactive"
    /\ promptStatus = "none"
    /\ lastReading = None
    /\ postReading = None
    /\ ops = NoOps
    /\ opsAtCall = NoOps
    /\ opsAtReading = NoOps
    /\ launched = {}

\* get_button_state, lines 234-240, on the capture current_img
ProbeGetButtonState ==
    /\ pc = "probe"
    /\ pc' = "classified"
    /\ retval' = StateRet(GetButtonState(Matches(refs, current_img[1])))
    /\ UNCHANGED <<stack, exc, cfgVars, imgVars, bezi_window, outVars,
                   appVars, histVars>>

\* images_match(self.ready_icon_busy, current_img, t), lines 243-250
ProbeImagesMatch ==
    /\ pc = "probe"
    /\ pc' = "matched"
    /\ \E t \in Thresholds :
         retval' = [kind |-> "match", threshold |-> t,
                    result |-> ImagesMatch(refs.busy[1], current_img[1], t)]
    /\ UNCHANGED <<stack, exc, cfgVars, imgVars, bezi_window, outVars,
                   appVars, histVars>>

NextClassifier == ProbeGetButtonState \/ ProbeImagesMatch

SpecClassifier == InitClassifier /\ [][NextClassifier]_vars

\* the capture matches reference name when more than 90 percent of the
\* array elements are equal
MatchesRef(name) ==
    /\ refs[name][1].shape = current_img[1].shape
    /\ Cardinality(EqualElements(refs[name][1], current_img[1])) * 100
         > 90 * Cardinality(Elements(current_img[1]))

\* C12: get_button_state returns BUSY when the BUSY reference matches, else
\* INACTIVE when the INACTIVE reference matches, else READY when the READY
\* reference matches, else UNKNOWN, at threshold 0.90; a capture matching
\* both BUSY and INACTIVE yields BUSY.
C12_ClassifierPriority ==
    pc = "classified" =>
        /\ MatchesRef("busy") => retval.state = "BUSY"
        /\ ~MatchesRef("busy") /\ MatchesRef("inactive")
             => retval.state = "INACTIVE"
        /\ ~MatchesRef("busy") /\ ~MatchesRef("inactive") /\ MatchesRef("ready")
             => retval.state = "READY"
        /\ ~MatchesRef("busy") /\ ~MatchesRef("inactive") /\ ~MatchesRef("ready")
             => retval.state = "UNKNOWN"

\* a capture that matches two different references, BUSY and INACTIVE
C12_Witness ==
    /\ pc = "classified"
    /\ refs.busy # refs.inactive
    /\ MatchesRef("busy")
    /\ MatchesRef("inactive")
    /\ retval.state = "BUSY"

\* pixels of two images of one shape that are equal in all their channels
EqualPixels(i1, i2) == {k \in DOMAIN i1.px : i1.px[k] = i2.px[k]}

\* C13 (as claimed): for images of one shape images_match is true exactly
\* when the fraction of pixels equal in all channels exceeds the threshold;
\* for images of different shapes it is false.
C13_MatchIsPixelFraction ==
    pc = "matched" =>
        retval.result =
            /\ refs.busy[1].shape = current_img[1].shape
            /\ Cardinality(EqualPixels(refs.busy[1], current_img[1])) * 100
                 > retval.threshold * Len(current_img[1].px)

\* C14 (as claimed): when a reference image file was absent at startup,
\* every classification of a captured image returns UNKNOWN and raises
\* nothing.
C14_MissingRefsReadUnknown ==
    refs # AllRefs /\ current_img # <<>> =>
        /\ lastReading = "UNKNOWN"
        /\ exc # "Exception"

\* statements that operate on self.bezi_window or on a control found
\* through it: set_focus, type_keys, descendants, child_window, set_text
WindowUseLabels == {"nt137", "nt138", "gbs118", "cd178", "cd180", "sp156",
                    "sp157", "sp159", "sp173"}

\* C15 (as claimed): no operation on the window or its controls uses a
\* handle obtained before the most recent sleep, key or text injection or
\* dialog click.
C15_FreshHandle ==
    [][(pc' # pc /\ pc \in WindowUseLabels) => bezi_window = "valid"]_vars

\* every use other than the Enter keystroke of line 159 has a fresh handle
C15_FreshExceptEnter ==
    [][(pc' # pc /\ pc \in WindowUseLabels \ {"sp159"})
         => bezi_window = "valid"]_vars

\* statements of close_dialogs and of the find_windows calls it makes
InCloseDialogs ==
    \/ pc \in {"cd178", "cd179", "cd180", "cd181", "cd182"}
    \/ pc = "fw103" /\ Head(stack) \in {"cd180", "cd182"}

\* a step of the bridge inside close_dialogs that finds no dialog button,
\* taken with the handle that close_dialogs was entered with or re-acquired
ReapStepNoDialog ==
    /\ pc' # pc
    /\ InCloseDialogs
    /\ ops'["click"] = ops["click"]
    /\ bezi_window = "valid"

\* the step raises nothing, sends no input, launches nothing and leaves the
\* state of the bridge and of the app as it was
ReapStepClean ==
    /\ exc' = exc
    /\ pc' # "run267"
    /\ bezi_window' = "valid"
    /\ \A k \in {"click", "set_focus", "new_thread_keys", "set_text", "enter",
                 "launch"} : ops'[k] = ops[k]
    /\ UNCHANGED <<args, configFile, config, bezi_path, bezi_prompt, refs,
                   keepAwake, runResult, stdout, exitCode, appIcon,
                   promptStatus, launched>>

\* C16 (as claimed): close_dialogs with no dialog present raises no error
\* and has no side effect, so that the state after two calls, after one call
\* and before is the same.
C16_ReapNoSideEffect == [][ReapStepNoDialog => ReapStepClean]_vars

\* C16 (amended): the same, provided each find_windows of close_dialogs
\* connects to the running app.
C16_ReapNoSideEffectConnected ==
    [][ReapStepNoDialog /\ ops'["launch"] = ops["launch"]
         => ReapStepClean]_vars

\* close_dialogs ran twice (lines 141 and 152), no dialog, app running
C16_Witness ==
    /\ pc = "sp155"
    /\ ops["reap"] = 2
    /\ ops["click"] = 0
    /\ ops["launch"] = 0
    /\ bezi_window = "valid"
    /\ exc = "none"

\* the file an initialization run is to write
InitConfigFile ==
    <<[wellformed |-> TRUE,
       data |-> [initialized |-> TRUE,
                 bezi_path |-> IF args.bezi_path = None
                               THEN DefaultBeziPath
                               ELSE args.bezi_path]]>>

\* the only window interaction so far is one find_windows
OnlyInitialDiscovery ==
    /\ ops["find_windows"] = 1
    /\ \A k \in OpKinds \ {"find_windows", "launch"} : ops[k] = 0

\* C17: an initialization run with no prior config file persists exactly
\* {initialized: true, bezi_path: P}, P the supplied path or else the
\* default path, reports "Initialization Complete" as a success, and does
\* nothing with the window beyond the initial find_windows.
C17_InitRun ==
    [][/\ (pc' = "run262" /\ pc = "run261" /\ configFile = <<>>)
          => configFile' = InitConfigFile
       /\ (pc' = "exited" /\ pc = "main280" /\ args.init /\ exc = "none")
          => /\ configFile = InitConfigFile
             /\ stdout = <<InitMsg>>
             /\ runResult = <<[success |-> TRUE, result |-> InitMsg]>>
             /\ exitCode' = <<0>>
             /\ OnlyInitialDiscovery]_vars

\* an initialization run without --bezi_path ended with the default path
\* persisted
C17_Witness ==
    /\ pc = "exited"
    /\ args.init
    /\ args.bezi_path = None
    /\ exc = "none"
    /\ configFile = InitConfigFile
    /\ stdout = <<InitMsg>>

\* the executable configured for the run: the command-line override, else
\* the path of the loaded config, else the default install path
ConfiguredPath ==
    Or(args.bezi_path,
       Or(IF config = <<>> THEN None ELSE config[1].bezi_path,
          DefaultBeziPath))

\* C18 (as claimed): every executable that find_windows starts is the
\* configured path; the default path is started only when none is configured.
C18_LaunchesConfiguredPath ==
    [][launched' # launched => launched' \ launched = {ConfiguredPath}]_vars

\* the acquisitions after validate_arguments do start the configured path
C18_LaterLaunchesConfigured ==
    [][(launched' # launched /\ Head(stack) # "run259")
         => launched' \ launched = {ConfiguredPath}]_vars

\* operations of kind k since the last reading returned by get_bezi_state
Since(k) == ops[k] - opsAtReading[k]

\* C19: in both wait loops only a reading of INACTIVE ends the loop; a BUSY,
\* READY or UNKNOWN reading is followed by exactly one close_dialogs and
\* one sleep before the next classification; the INACTIVE reading that ends
\* a loop is followed by exactly one close_dialogs, and no classification or
\* sleep, before the submission (line 155) or the harvest (line 172).
C19_WaitLoopShape ==
    [][/\ (pc' \in {"sp152", "sp170"} /\ pc \in {"sp149t", "sp167t"})
          => retval.state = "INACTIVE" /\ lastReading = "INACTIVE"
       /\ (pc' \in {"sp150", "sp168"} /\ pc \in {"sp149t", "sp167t"})
          => retval.state \in {"BUSY", "READY", "UNKNOWN"}
       /\ (pc' # pc /\ pc = "gbs122"
             /\ lastReading \in {"BUSY", "READY", "UNKNOWN"})
          => /\ Since("reap") = 1
             /\ Since("sleep") = 1
             /\ Since("classify") = 0
       /\ (pc' # pc /\ pc \in {"sp155", "sp172"})
          => /\ lastReading = "INACTIVE"
             /\ Since("reap") = 1
             /\ Since("sleep") = 0
             /\ Since("classify") = 0]_vars

\* both waits polled more than once and the harvest is next
C19_Witness ==
    /\ pc = "sp173"
    /\ ops["polls"] >= 2
    /\ ops["enter"] = 1
    /\ postReading = "INACTIVE"
    /\ Since("reap") = 1

(***************************************************************************)
(* Progress of a run with a non-empty prompt.  The bridge is one           *)
(* sequential process that keeps executing its next statement (every call  *)
(* it makes returns or raises, time.sleep returns); nothing is assumed of  *)
(* the target app.                                                         *)
(***************************************************************************)
\* a step of the bridge: every statement moves the program counter
BridgeStep == Next /\ pc' # pc

\* runs started with --prompt Hello, no config file, all references loaded
InitLive ==
    /\ Init
    /\ args.prompt = "Hello"
    /\ args.bezi_path = None
    /\ configFile = <<>>
    /\ refs = AllRefs

SpecLive == InitLive /\ [][Next]_vars /\ WF_vars(BridgeStep)

\* no UI operation has failed: nothing was raised, the control lookup did
\* not exit, the handler of line 161 was not entered
NoFailure == exc = "none" /\ pc # "sp161" /\ retval.kind # "False"

\* send_prompt was called and no reading of its first wait was INACTIVE
NeverIdle ==
    /\ opsAtCall # NoOps
    /\ lastReading # "INACTIVE"
    /\ ops["enter"] = 0

\* send_prompt returned the harvest to run()
Harvested == pc = "run265" /\ retval.kind = "list"

\* C20: send_prompt has no timeout.  With a non-empty prompt and no failing
\* UI operation it returns the harvest if a poll of the first wait and a
\* poll of the second wait read INACTIVE; as long as no poll of the first
\* wait has read INACTIVE it has injected nothing and has not returned, and
\* each such reading is followed by another classification (line 122).
C20_NoTimeout ==
    /\ ([]NoFailure /\ <>(lastReading = "INACTIVE" /\ ops["enter"] = 0)
          /\ <>(postReading = "INACTIVE"))
         => <>Harvested
    /\ [](NeverIdle /\ NoFailure
            => /\ ops["set_text"] = 0
               /\ ops["edit_lookup"] = 0
               /\ pc \notin {"run265"} \cup AfterRun)
    /\ (pc = "sp149t" /\ retval.state # "INACTIVE" /\ ops["polls"] < MaxPolls)
         ~> (pc = "gbs122" \/ ~NoFailure)

\* the harvest was returned after the first wait polled twice or more
C20_Witness ==
    /\ Harvested
    /\ ops["polls"] >= 2
    /\ postReading = "INACTIVE"
    /\ ops["set_text"] = 1
    /\ opsAtCall["polls"] = 0

=============================================================================
